---- MODULE Spec2Model ----
(***************************************************************************)
(* A model of everything_claude_code/cli.py: the `link` command, which     *)
(* symlinks the configuration directories into the destination tree,       *)
(* merges hooks/hooks.json into settings.json and merges                   *)
(* mcp-configs/mcp-servers.json into the client-config document.           *)
(*                                                                         *)
(* Text is modelled as a sequence of lexemes: a Python str is a sequence   *)
(* whose elements are either a chunk of ordinary characters or one         *)
(* character that matters to JSON (a quote, a backslash) or one of the     *)
(* placeholder tokens.  str.replace and `in` work on that sequence.        *)
(* A JSON value is a tagged record; a mapping's keys are strings.          *)
(***************************************************************************)
EXTENDS Integers, Sequences, FiniteSets, TLC

(***************************************************************************)
(* Program constants.                                                      *)
(***************************************************************************)
LINK_DIRS == <<"agents", "commands", "contexts", "plugins", "rules", "skills">>

GH_TOKEN_PLACEHOLDER == "YOUR_GITHUB_PAT_HERE"

FS_PATH_PLACEHOLDER == "YOUR_FILESYSTEM_PATH_HERE"

PLUGIN_ROOT_PLACEHOLDER == "${CLAUDE_PLUGIN_ROOT}"

(***************************************************************************)
(* Python values.                                                          *)
(***************************************************************************)
None == [t |-> "none", v |-> <<>>]

Str(s) == [t |-> "str", v |-> s]

Bool(b) == [t |-> "bool", v |-> b]

\* f @@ <<>> is f, evaluated once and for all.
List(l) == [t |-> "list", v |-> l @@ <<>>]

Dict(f) == [t |-> "dict", v |-> f @@ <<>>]

Ref(i) == [t |-> "ref", v |-> i]

IsDict(x) == x.t = "dict"

IsRef(x) == x.t = "ref"

EmptyDict == Dict(<<>>)

\* A key of a mapping: the one-lexeme string s.
K(s) == <<s>>

\* d[k] = v on the mapping payload f.
Put(f, k, v) == (k :> v) @@ f

\* d.get(k, default) on the mapping d.
Get(d, k, default) == IF k \in DOMAIN d.v THEN d.v[k] ELSE default

(***************************************************************************)
(* Text.  BS is a backslash, QT a double quote, LF a line feed; every      *)
(* other lexeme is a chunk of characters that mean nothing to JSON, or a   *)
(* placeholder token.  A chunk that follows a BS in a model text starts    *)
(* with a character that is no JSON escape, unless it is the one-character *)
(* lexeme "n".                                                             *)
(***************************************************************************)
BS == "\\"

QT == "\""

LF == "<LF>"

\* old in s
str_contains(s, old) == \E i \in DOMAIN s : s[i] = old

\* s.replace(old, new), old a one-lexeme string and new a string
RECURSIVE str_replace(_, _, _)
str_replace(s, old, new) ==
    IF s = <<>> THEN <<>>
    ELSE (IF Head(s) = old THEN new ELSE <<Head(s)>>) \o str_replace(Tail(s), old, new)

\* s.strip()
RECURSIVE str_strip(_)
str_strip(s) ==
    IF s = <<>> THEN <<>>
    ELSE IF Head(s) = LF THEN str_strip(Tail(s))
    ELSE IF s[Len(s)] = LF THEN str_strip(SubSeq(s, 1, Len(s) - 1))
    ELSE s

(***************************************************************************)
(* JSON text.  The text of a document is kept as its structure with every  *)
(* string (key or value) in its written, escaped form; json.loads decodes  *)
(* the strings or fails, json.dumps encodes them.                          *)
(***************************************************************************)
\* Whether the characters between two quotes of a JSON text are a string literal.
RECURSIVE literal_ok(_)
literal_ok(s) ==
    IF s = <<>> THEN TRUE
    ELSE IF Head(s) = BS
         THEN Len(s) >= 2 /\ s[2] \in {QT, BS, "/", "n"} /\ literal_ok(Tail(Tail(s)))
    ELSE IF Head(s) \in {QT, LF} THEN FALSE
    ELSE literal_ok(Tail(s))

\* The string a literal stands for.
RECURSIVE unescape(_)
unescape(s) ==
    IF s = <<>> THEN <<>>
    ELSE IF Head(s) = BS
         THEN <<IF s[2] = "n" THEN LF ELSE s[2]>> \o unescape(Tail(Tail(s)))
    ELSE <<Head(s)>> \o unescape(Tail(s))

\* The literal json.dumps writes for a string.
RECURSIVE escape(_)
escape(s) ==
    IF s = <<>> THEN <<>>
    ELSE (CASE Head(s) = QT -> <<BS, QT>>
            [] Head(s) = BS -> <<BS, BS>>
            [] Head(s) = LF -> <<BS, "n">>
            [] OTHER -> <<Head(s)>>) \o escape(Tail(s))

RECURSIVE text_ok(_)
text_ok(x) ==
    CASE x.t = "str" -> literal_ok(x.v)
      [] x.t = "list" -> \A i \in DOMAIN x.v : text_ok(x.v[i])
      [] x.t = "dict" -> \A k \in DOMAIN x.v : literal_ok(k) /\ text_ok(x.v[k])
      [] OTHER -> TRUE

RECURSIVE decode(_)
decode(x) ==
    CASE x.t = "str" -> Str(unescape(x.v))
      [] x.t = "list" -> List([i \in DOMAIN x.v |-> decode(x.v[i])])
      [] x.t = "dict" ->
            Dict([k2 \in {unescape(k) : k \in DOMAIN x.v} |->
                    decode(x.v[CHOOSE k \in DOMAIN x.v : unescape(k) = k2])])
      [] OTHER -> x

RECURSIVE encode(_)
encode(x) ==
    CASE x.t = "str" -> Str(escape(x.v))
      [] x.t = "list" -> List([i \in DOMAIN x.v |-> encode(x.v[i])])
      [] x.t = "dict" ->
            Dict([k2 \in {escape(k) : k \in DOMAIN x.v} |->
                    encode(x.v[CHOOSE k \in DOMAIN x.v : escape(k) = k2])])
      [] OTHER -> x

\* raw_text.replace(old, new) on the text of a document: every string of it.
RECURSIVE text_replace(_, _, _)
text_replace(x, old, new) ==
    CASE x.t = "str" -> Str(str_replace(x.v, old, new))
      [] x.t = "list" -> List([i \in DOMAIN x.v |-> text_replace(x.v[i], old, new)])
      [] x.t = "dict" ->
            Dict([k2 \in {str_replace(k, old, new) : k \in DOMAIN x.v} |->
                    text_replace(
                        x.v[CHOOSE k \in DOMAIN x.v : str_replace(k, old, new) = k2],
                        old, new)])
      [] OTHER -> x

\* old in raw_text
RECURSIVE text_contains(_, _)
text_contains(x, old) ==
    CASE x.t = "str" -> str_contains(x.v, old)
      [] x.t = "list" -> \E i \in DOMAIN x.v : text_contains(x.v[i], old)
      [] x.t = "dict" ->
            \E k \in DOMAIN x.v : str_contains(k, old) \/ text_contains(x.v[k], old)
      [] OTHER -> FALSE

\* json.loads(text): ok is FALSE where it raises.
json_loads(text) ==
    IF text_ok(text) THEN [ok |-> TRUE, data |-> decode(text)]
    ELSE [ok |-> FALSE, data |-> None]

\* json.dumps(data, indent=2) + "\n"
json_dumps(data) == encode(data)

(***************************************************************************)
(* Files.  A file is absent, or holds only white space ("blank"), or text  *)
(* that is no JSON ("malformed"), or the text of a JSON document; fmt says *)
(* whether the text is laid out as json.dumps(indent=2) lays it out.       *)
(***************************************************************************)
NoFile == [kind |-> "absent", fmt |-> "", data |-> None]

BlankFile == [kind |-> "blank", fmt |-> "", data |-> None]

MalformedFile == [kind |-> "malformed", fmt |-> "", data |-> None]

\* A file as a user or another tool wrote it.
UserFile(text) == [kind |-> "json", fmt |-> "user", data |-> text]

is_file(f) == f.kind # "absent"

\* A read that takes a malformed file for an empty one.
read_json_or_empty(f) ==
    IF f.kind \in {"absent", "blank", "malformed"} THEN [ok |-> TRUE, data |-> EmptyDict]
    ELSE json_loads(f.data)

_read_json(f) ==
    IF ~is_file(f) THEN [ok |-> TRUE, data |-> EmptyDict]
    ELSE IF f.kind = "blank" THEN [ok |-> TRUE, data |-> EmptyDict]
    ELSE IF f.kind = "malformed" THEN [ok |-> FALSE, data |-> None]
    ELSE json_loads(f.data)

_write_json(data) == [kind |-> "json", fmt |-> "dumps", data |-> json_dumps(data)]

\* A backup that keeps the .bak of an earlier run.
backup_once(f, bakf) ==
    IF ~is_file(f) THEN [bak |-> bakf, ret |-> FALSE]
    ELSE [bak |-> IF is_file(bakf) THEN bakf ELSE f, ret |-> TRUE]

\* _backup(path): the .bak file afterwards, and whether a path is returned.
_backup(f, bakf) ==
    IF ~is_file(f) THEN [bak |-> bakf, ret |-> FALSE]
    ELSE [bak |-> f, ret |-> TRUE]

\* A merge of the top-level keys alone.
shallow_merge(base, overlay) == Dict(overlay.v @@ base.v)

(***************************************************************************)
(* _deep_merge on values.  The loop over overlay.items() is the recursion  *)
(* of deep_merge_loop over the keys still to visit; every key is written   *)
(* once, so the order of the visit does not show in the result.            *)
(***************************************************************************)
RECURSIVE _deep_merge(_, _)
RECURSIVE deep_merge_loop(_, _, _)

deep_merge_loop(merged, overlay, keys) ==
    IF keys = {} THEN Dict(merged)
    ELSE LET key == CHOOSE k \in keys : TRUE
             value == overlay.v[key]
             new == IF key \in DOMAIN merged /\ IsDict(merged[key]) /\ IsDict(value)
                    THEN _deep_merge(merged[key], value)
                    ELSE value
         IN deep_merge_loop(Put(merged, key, new), overlay, keys \ {key})

_deep_merge(base, overlay) == deep_merge_loop(base.v, overlay, DOMAIN overlay.v)

(***************************************************************************)
(* _deep_merge on a heap of dict objects, to see what the call writes.     *)
(* heap[i] is the payload of object i; a nested mapping is held by         *)
(* reference, as Python holds it.  {**base} allocates a new object with    *)
(* base's entries; merged[key] = ... writes to that new object.            *)
(***************************************************************************)
RECURSIVE deep_merge_heap(_, _, _)
RECURSIVE deep_merge_heap_loop(_, _, _, _)

\* merged = base, no copy made.
CopyOf_alias(h, base) == [h |-> h, r |-> base]

\* merged = {**base}
CopyOf(h, base) == [h |-> Append(h, h[base]), r |-> Len(h) + 1]

deep_merge_heap_loop(h, m, overlay, keys) ==
    IF keys = {} THEN [h |-> h, r |-> Ref(m)]
    ELSE LET key == CHOOSE k \in keys : TRUE
             value == h[overlay][key]
             rec == deep_merge_heap(h, h[m][key].v, value.v)
         IN IF key \in DOMAIN h[m] /\ IsRef(h[m][key]) /\ IsRef(value)
            THEN deep_merge_heap_loop(
                     [rec.h EXCEPT ![m] = Put(@, key, rec.r)], m, overlay, keys \ {key})
            ELSE deep_merge_heap_loop(
                     [h EXCEPT ![m] = Put(@, key, value)], m, overlay, keys \ {key})

deep_merge_heap(h, base, overlay) ==
    LET c == CopyOf(h, base)
    IN deep_merge_heap_loop(c.h, c.r, overlay, DOMAIN h[overlay])

\* The value a heap reference (or an immediate value) stands for.
RECURSIVE Val(_, _)
Val(h, x) == IF IsRef(x) THEN Dict([k \in DOMAIN h[x.v] |-> Val(h, h[x.v][k])]) ELSE x

\* Allocate value x on heap h: <<heap, reference or immediate value>>.
RECURSIVE Load(_, _)
RECURSIVE LoadItems(_, _, _, _)
LoadItems(h, d, keys, acc) ==
    IF keys = {} THEN [h |-> Append(h, acc), r |-> Ref(Len(h) + 1)]
    ELSE LET key == CHOOSE k \in keys : TRUE
             child == Load(h, d.v[key])
         IN LoadItems(child.h, d, keys \ {key}, Put(acc, key, child.r))

Load(h, x) == IF IsDict(x) THEN LoadItems(h, x, DOMAIN x.v, <<>>) ELSE [h |-> h, r |-> x]

(***************************************************************************)
(* Paths and the directories around the program.  A path is a string; an   *)
(* absolute one starts with the lexeme "/".                                *)
(***************************************************************************)
CWD == <<"/", "cwd">>

HOME == <<"/", "home">>

\* The --dest directory.
DEST == <<"/", "home", "/", ".claude">>

\* The directories that exist besides the source and destination trees.
ExistingDirs ==
    {CWD, HOME, DEST, <<"/", "data">>, <<"/", "cwd", "/", "proj">>, <<"/", "home", "/", "code">>}

IsAbs(p) == p # <<>> /\ p[1] = "/"

\* parent / child
Join(parent, child) == parent \o <<"/">> \o child

\* Where the operating system finds the relative or absolute path p from directory d.
From(d, p) == IF IsAbs(p) THEN p ELSE IF p = <<>> THEN d ELSE Join(d, p)

\* Path(p).expanduser()
expanduser(p) == IF p # <<>> /\ p[1] = "~" THEN HOME \o Tail(p) ELSE p

\* Path(p).resolve(): the absolute path (the model has no symlinks or dots in these paths)
resolve(p) == From(CWD, p)

\* Path(p).is_dir()
is_dir(p) == From(CWD, p) \in ExistingDirs

(***************************************************************************)
(* _set_filesystem_path: the client-config file after the call, ok FALSE   *)
(* where reading it raises.                                                *)
(***************************************************************************)
set_args_last(args, path_value) ==
    IF args # <<>> THEN [args EXCEPT ![Len(args)] = Str(path_value)]
    ELSE <<Str(path_value)>>

_set_filesystem_path(f, path_value) ==
    LET rd == _read_json(f)
        data == rd.data
        servers == Get(data, K("mcpServers"), EmptyDict)
        fs_config == Get(servers, K("filesystem"), EmptyDict)
        args == Get(fs_config, K("args"), List(<<>>)).v
        new_args == List(set_args_last(args, path_value))
        new_fs == Dict(Put(fs_config.v, K("args"), new_args))
        new_servers == Dict(Put(servers.v, K("filesystem"), new_fs))
    IN IF ~rd.ok THEN [ok |-> FALSE, file |-> f]
       ELSE [ok |-> TRUE, file |-> _write_json(Dict(Put(data.v, K("mcpServers"), new_servers)))]

(***************************************************************************)
(* _gh_auth_token: gh is a record [installed, stdout] of the helper.       *)
(***************************************************************************)
\* A helper whose empty output is taken for a token.
gh_token_or_empty(gh) ==
    IF ~gh.installed THEN None ELSE Str(str_strip(gh.stdout))

_gh_auth_token(gh) ==
    IF ~gh.installed THEN None
    ELSE IF str_strip(gh.stdout) # <<>> THEN Str(str_strip(gh.stdout)) ELSE None

\* The helper was not run.
NotAsked == [installed |-> FALSE, stdout |-> <<"not asked">>]

(***************************************************************************)
(* _auto_fill_gh_token: the file afterwards, what was echoed, and whether  *)
(* the helper was run.                                                     *)
(***************************************************************************)
_auto_fill_gh_token(f, gh) ==
    IF ~text_contains(f.data, GH_TOKEN_PLACEHOLDER)
    THEN [file |-> f, out |-> {}, asked |-> FALSE]
    ELSE LET token == _gh_auth_token(gh)
         IN IF token # None
            THEN [file |-> [f EXCEPT !.data = text_replace(@, GH_TOKEN_PLACEHOLDER, token.v)],
                  out |-> {"gh_autofilled"}, asked |-> TRUE]
            ELSE [file |-> f, out |-> {"gh_tip"}, asked |-> TRUE]

(***************************************************************************)
(* _handle_filesystem_path.  has_bak: _backup returned a path; fs_path is  *)
(* None or Str; answer is what the operator types at the prompt.           *)
(***************************************************************************)
\* The last element of mcpServers.filesystem.args in the backup, or None.
existing_fs_path_of(has_bak, bakf) ==
    IF has_bak /\ is_file(bakf)
    THEN LET bak_data == _read_json(bakf).data
             args == Get(Get(Get(bak_data, K("mcpServers"), EmptyDict),
                             K("filesystem"), EmptyDict), K("args"), List(<<>>)).v
         IN IF args # <<>> THEN args[Len(args)] ELSE None
    ELSE None

\* A str that is not empty.
Truthy(x) == x # None /\ x.v # <<>>

fs_from_flag(f, fs_path) ==
    LET resolved == resolve(expanduser(fs_path.v))
        set == _set_filesystem_path(f, resolved)
    IN IF is_dir(resolved)
       THEN [ok |-> set.ok, file |-> set.file, out |-> {"fs_set_from_flag"}, prompted |-> FALSE]
       ELSE [ok |-> TRUE, file |-> f, out |-> {"fs_flag_not_a_directory"}, prompted |-> FALSE]

\* The restore forgotten: the merged document is left as the merge wrote it.
fs_from_backup_forgotten(f, existing_fs_path) ==
    [ok |-> TRUE, file |-> f, out |-> {"fs_restored"}, prompted |-> FALSE]

fs_from_backup(f, existing_fs_path) ==
    LET set == _set_filesystem_path(f, existing_fs_path.v)
    IN [ok |-> set.ok, file |-> set.file, out |-> {"fs_restored"}, prompted |-> FALSE]

fs_from_prompt(f, answer, warned) ==
    LET resolved == resolve(expanduser(answer))
        set == _set_filesystem_path(f, resolved)
    IN IF answer # <<>>
       THEN IF is_dir(resolved)
            THEN [ok |-> set.ok, file |-> set.file,
                  out |-> warned \cup {"fs_prompt", "fs_set_from_prompt"}, prompted |-> TRUE]
            ELSE [ok |-> TRUE, file |-> f,
                  out |-> warned \cup {"fs_prompt", "fs_prompt_not_a_directory"},
                  prompted |-> TRUE]
       ELSE [ok |-> TRUE, file |-> f,
             out |-> warned \cup {"fs_prompt", "fs_prompt_skipped"}, prompted |-> TRUE]

\* The stale-path warning ending the reconciliation, as a fourth exclusive branch would.
fs_stale_is_final(f, no_prompt, answer, warned) ==
    IF no_prompt \/ warned # {}
    THEN [ok |-> TRUE, file |-> f, out |-> warned \cup {"fs_skipped_no_prompt"},
          prompted |-> FALSE]
    ELSE fs_from_prompt(f, answer, warned)

\* Lines 231-262: after the stale-path test the code goes on to the prompt.
fs_after_stale(f, no_prompt, answer, warned) ==
    IF no_prompt
    THEN [ok |-> TRUE, file |-> f, out |-> warned \cup {"fs_skipped_no_prompt"},
          prompted |-> FALSE]
    ELSE fs_from_prompt(f, answer, warned)

_handle_filesystem_path(f, has_bak, bakf, fs_path, no_prompt, answer) ==
    LET existing_fs_path == existing_fs_path_of(has_bak, bakf)
        configured == Truthy(existing_fs_path) /\ existing_fs_path.v # <<FS_PATH_PLACEHOLDER>>
        warned == IF configured /\ ~is_dir(existing_fs_path.v)
                  THEN {"fs_stale_warning"} ELSE {}
    IN IF Truthy(fs_path) THEN fs_from_flag(f, fs_path)
       ELSE IF configured /\ is_dir(existing_fs_path.v)
            THEN fs_from_backup(f, existing_fs_path)
       ELSE fs_after_stale(f, no_prompt, answer, warned)

(***************************************************************************)
(* _merge_mcp_servers.                                                     *)
(***************************************************************************)
\* A merge of the whole source document into the client-config document.
merge_whole_document(existing, mcp_data) == _deep_merge(existing, mcp_data)

\* Lines 151-155: the document written by the merge.
merge_servers_only(existing, mcp_data) ==
    LET existing_servers == Get(existing, K("mcpServers"), EmptyDict)
        new_servers == Get(mcp_data, K("mcpServers"), EmptyDict)
        merged_servers == _deep_merge(existing_servers, new_servers)
    IN Dict(Put(existing.v, K("mcpServers"), merged_servers))

_merge_mcp_servers(mcpf, cjf, cj_bakf, fs_path, no_prompt, gh, answer) ==
    LET mcp_data == _read_json(mcpf)
        b == _backup(cjf, cj_bakf)
        existing == _read_json(cjf)
        written == _write_json(merge_servers_only(existing.data, mcp_data.data))
        filled == _auto_fill_gh_token(written, gh)
        handled == _handle_filesystem_path(filled.file, b.ret, b.bak, fs_path, no_prompt,
                                           answer)
        notices == (IF b.ret THEN {"backed_up_claude_json"} ELSE {}) \cup {"merged_mcp"}
    IN IF ~is_file(mcpf)
       THEN [ok |-> TRUE, claude_json |-> cjf, claude_json_bak |-> cj_bakf,
             out |-> {"skip_mcp"}, asked |-> FALSE, prompted |-> FALSE]
       ELSE IF ~mcp_data.ok
       THEN [ok |-> FALSE, claude_json |-> cjf, claude_json_bak |-> cj_bakf,
             out |-> {}, asked |-> FALSE, prompted |-> FALSE]
       ELSE IF ~existing.ok
       THEN [ok |-> FALSE, claude_json |-> cjf, claude_json_bak |-> b.bak,
             out |-> notices \ {"merged_mcp"}, asked |-> FALSE, prompted |-> FALSE]
       ELSE [ok |-> handled.ok, claude_json |-> handled.file, claude_json_bak |-> b.bak,
             out |-> notices \cup filled.out \cup handled.out,
             asked |-> filled.asked, prompted |-> handled.prompted]

(***************************************************************************)
(* _merge_hooks.                                                           *)
(***************************************************************************)
\* Lines 117-119: the hooks document, its placeholder resolved in the text, then parsed.
read_hooks(hooksf, src_path) ==
    IF hooksf.kind # "json" THEN [ok |-> FALSE, data |-> None]
    ELSE json_loads(text_replace(hooksf.data, PLUGIN_ROOT_PLACEHOLDER, src_path))

_merge_hooks(src_path, hooksf, settingsf, settings_bakf) ==
    LET hooks_data == read_hooks(hooksf, src_path)
        b == _backup(settingsf, settings_bakf)
        existing == _read_json(settingsf)
        notices == IF b.ret THEN {"backed_up_settings"} ELSE {}
    IN IF ~is_file(hooksf)
       THEN [ok |-> TRUE, settings |-> settingsf, settings_bak |-> settings_bakf,
             out |-> {"skip_hooks"}]
       ELSE IF ~hooks_data.ok
       THEN [ok |-> FALSE, settings |-> settingsf, settings_bak |-> settings_bakf,
             out |-> {}]
       ELSE IF ~existing.ok
       THEN [ok |-> FALSE, settings |-> settingsf, settings_bak |-> b.bak, out |-> notices]
       ELSE [ok |-> TRUE,
             settings |-> _write_json(_deep_merge(existing.data, hooks_data.data)),
             settings_bak |-> b.bak, out |-> notices \cup {"merged_hooks"}]

(***************************************************************************)
(* _link_directories.  An entry of the destination tree is absent, a       *)
(* symlink with the target text it was created with, or a real directory   *)
(* with its content.  A tree is [dst, bak]: the entry at <name> and the    *)
(* entry at <name>.bak, for each name of LINK_DIRS.                        *)
(***************************************************************************)
NoEntry == [kind |-> "absent", target |-> <<>>, content |-> <<>>]

Symlink(target) == [kind |-> "symlink", target |-> target, content |-> <<>>]

RealDir(content) == [kind |-> "dir", target |-> <<>>, content |-> content]

\* dest_path.unlink()
unlink(t, name) == [t EXCEPT !.dst[name] = NoEntry]

\* if bak.exists(): shutil.rmtree(bak)
rmtree_bak(t, name) ==
    IF t.bak[name].kind = "absent" THEN t
    ELSE IF t.bak[name].kind = "dir" THEN [t EXCEPT !.bak[name] = NoEntry]
    ELSE [t EXCEPT !.ok = FALSE]

\* dest_path.rename(bak): fails when something is at bak.
rename_to_bak(t, name) ==
    IF t.bak[name].kind # "absent" THEN [t EXCEPT !.ok = FALSE]
    ELSE [t EXCEPT !.bak[name] = t.dst[name], !.dst[name] = NoEntry]

\* dest_path.symlink_to(src_path): fails when something is at dest_path.
symlink_to(t, name, target) ==
    IF t.dst[name].kind # "absent" THEN [t EXCEPT !.ok = FALSE]
    ELSE [t EXCEPT !.dst[name] = Symlink(target)]

\* A symlink in the way backed up as a directory is.
backup_whatever_is_there(t, name) ==
    IF t.dst[name].kind = "absent" THEN t
    ELSE LET t1 == [t EXCEPT !.bak[name] = NoEntry] IN rename_to_bak(t1, name)

\* Lines 92-100: what is done to an entry that is in the way.
clear_dest(t, name) ==
    IF t.dst[name].kind = "symlink" THEN unlink(t, name)
    ELSE IF t.dst[name].kind = "dir"
    THEN LET t1 == rmtree_bak(t, name)
         IN IF t1.ok THEN rename_to_bak(t1, name) ELSE t1
    ELSE t

\* One turn of the loop over LINK_DIRS.
link_one(t, src_path, names, name) ==
    IF name \notin names THEN t
    ELSE LET t1 == clear_dest(t, name)
         IN IF t1.ok THEN symlink_to(t1, name, Join(src_path, <<name>>)) ELSE t1

\* The loop from the i-th name on; an exception leaves it.
RECURSIVE link_from(_, _, _, _)
link_from(t, src_path, names, i) ==
    IF i > Len(LINK_DIRS) \/ ~t.ok THEN t
    ELSE link_from(link_one(t, src_path, names, LINK_DIRS[i]), src_path, names, i + 1)

_link_directories(t, src_path, names) ==
    link_from([dst |-> t.dst, bak |-> t.bak, ok |-> TRUE], src_path, names, 1)

\* Where the operating system finds what the symlink at DEST/<name> points at.
link_resolves_to(entry) == From(DEST, entry.target)

(***************************************************************************)
(* Inputs of the deep-merge check: mappings over two keys, nested up to    *)
(* MaxDepth mappings deep under the key "a".                               *)
(***************************************************************************)
MaxDepth == 2

MergeLeaves == {Str(<<"x">>), List(<<Str(<<"x">>)>>), List(<<Str(<<"y">>), Str(<<"z">>)>>)}

Absent == [t |-> "absent", v |-> <<>>]

\* The mapping with a |-> va and b |-> vb, a key left out when its value is Absent.
MkAB(va, vb) ==
    Dict([k \in (IF va = Absent THEN {} ELSE {K("a")}) \cup
                (IF vb = Absent THEN {} ELSE {K("b")}) |->
             IF k = K("a") THEN va ELSE vb])

RECURSIVE MergeValues(_)
MergeValues(d) ==
    IF d = 0 THEN MergeLeaves
    ELSE MergeLeaves \cup
         {MkAB(va, vb) : va \in MergeValues(d - 1) \cup {Absent},
                         vb \in {Absent, Str(<<"y">>), List(<<Str(<<"x">>)>>)}}

MergeDocs == {x \in MergeValues(MaxDepth) : IsDict(x)}

VARIABLES
    in_base, in_overlay,     \* the mappings given to _deep_merge
    heap, base, overlay,     \* the objects of the call, and the two arguments
    merged                   \* what the call returned, None before it

mvars == <<in_base, in_overlay, heap, base, overlay, merged>>

VARIABLES
    src,                     \* the --src path as given
    src_dirs,                \* the names of LINK_DIRS that are directories of the source
    hooks_src,               \* the file hooks/hooks.json of the source
    mcp_src,                 \* the file mcp-configs/mcp-servers.json of the source
    tree,                    \* the entries of the destination at <name> and <name>.bak
    settings, settings_bak,  \* the files settings.json and settings.json.bak
    claude_json, claude_json_bak,  \* the client-config file and its .bak
    pc,                      \* where the run stands: idle, link, hooks, mcp, summary
    args,                    \* the options and the answers of the run
    out,                     \* what the run has echoed
    exit,                    \* none, running, ok, error: how the last run ended
    runs_left,               \* the runs still to start
    pre,                     \* the files and entries when the run started, and the
                             \* entries when the run before it started
    prev                     \* the options and the exit of the run before

fixed == <<src, src_dirs, hooks_src, mcp_src>>

lvars == <<fixed, tree, settings, settings_bak, claude_json, claude_json_bak,
           pc, args, out, exit, runs_left, pre, prev>>

VARIABLES
    procs,                   \* two runs at once: where each stands in _link_directories
    overlapped               \* a run has taken a step while the other was under way

cvars == <<procs, overlapped>>

vars == <<mvars, lvars, cvars>>

(***************************************************************************)
(* The runs of link.                                                       *)
(***************************************************************************)
NotPrompted == <<"not prompted">>

\* The --fs-path values tried: not given, empty, a relative directory, no directory.
FsPathArgs == {None, Str(<<>>), Str(<<"proj">>), Str(<<"/", "gone">>)}

\* What the operator may type at the prompt: nothing, a directory, no directory.
Answers == {<<>>, <<"~", "/", "code">>, <<"/", "gone">>}

\* The credential helper: not installed, printing nothing, printing a token.
GhOutcomes == {[installed |-> FALSE, stdout |-> <<>>],
               [installed |-> TRUE, stdout |-> <<LF>>],
               [installed |-> TRUE, stdout |-> <<"ghp_test123", LF>>]}

\* The files and entries now, and the entries as the run before found them.
Snapshot(before) ==
    [tree |-> tree, settings |-> settings, settings_bak |-> settings_bak,
     claude_json |-> claude_json, claude_json_bak |-> claude_json_bak, before |-> before]

NoArgs == [fs_path |-> None, no_prompt |-> FALSE, gh |-> NotAsked, answer |-> NotPrompted]

(***************************************************************************)
(* The documents and trees the runs start from.                            *)
(***************************************************************************)
\* The mapping of the pairs <<key, value>> of S whose value is not Absent.
DictOf(S) ==
    Dict([k \in {p[1] : p \in {q \in S : q[2] # Absent}} |->
             (CHOOSE p \in S : p[1] = k)[2]])

S_(word) == Str(<<word>>)

Names == {LINK_DIRS[i] : i \in DOMAIN LINK_DIRS}

EmptyTree == [dst |-> [n \in Names |-> NoEntry], bak |-> [n \in Names |-> NoEntry]]

\* The source's entry for the GitHub server.
GithubTemplate ==
    DictOf({<<K("command"), S_("npx")>>,
            <<K("env"), DictOf({<<K("GITHUB_PERSONAL_ACCESS_TOKEN"),
                                  S_(GH_TOKEN_PLACEHOLDER)>>})>>})

\* A filesystem server whose args end in the string last.
FilesystemServer(pkg, last) ==
    DictOf({<<K("command"), S_("npx")>>,
            <<K("args"), List(<<S_("-y"), S_(pkg), Str(last)>>)>>})

FilesystemTemplate == FilesystemServer("@mcp/server-filesystem", <<FS_PATH_PLACEHOLDER>>)

\* A source MCP document with the servers gh and fs and the top-level key description.
McpDocument(gh, fs, top) ==
    UserFile(DictOf({<<K("mcpServers"), DictOf({<<K("github"), gh>>,
                                                <<K("filesystem"), fs>>})>>,
                     <<K("description"), top>>}))

\* mcp-configs/mcp-servers.json as the source may hold it.
McpSources ==
    {McpDocument(GithubTemplate, FilesystemTemplate, Absent),
     McpDocument(GithubTemplate, FilesystemTemplate, S_("MCP servers")),
     McpDocument(GithubTemplate, Absent, Absent),
     McpDocument(Absent, FilesystemTemplate, Absent),
     BlankFile,
     NoFile}

\* A client-config document: two top-level keys and three servers, each there or not.
ClientConfig(top, odd, custom, gh, fs) ==
    UserFile(DictOf({<<K("topLevel"), top>>,
                     <<K(GH_TOKEN_PLACEHOLDER), odd>>,
                     <<K("mcpServers"),
                       DictOf({<<K("custom"), custom>>,
                               <<K("github"), gh>>,
                               <<K("filesystem"), fs>>})>>}))

CustomServer == DictOf({<<K("command"), S_("my-server")>>})

\* A GitHub server holding a token the user typed in.
GithubUser ==
    DictOf({<<K("command"), S_("npx")>>,
            <<K("env"), DictOf({<<K("GITHUB_PERSONAL_ACCESS_TOKEN"), S_("ghp_user")>>})>>})

\* The filesystem servers a user may hold: the path a directory, stale, the
\* placeholder, or no args.
UserFilesystems ==
    {FilesystemServer("@mcp/old", <<"/", "data">>),
     FilesystemServer("@mcp/old", <<"/", "gone">>),
     FilesystemServer("@mcp/old", <<FS_PATH_PLACEHOLDER>>),
     DictOf({<<K("command"), S_("npx")>>, <<K("args"), List(<<>>)>>})}

\* The client-config document as the user may hold it.
ClientConfigs ==
    {ClientConfig(tops[1], tops[2], Absent, Absent, fs) :
        tops \in {<<Absent, Absent>>, <<S_("kept"), Absent>>,
                  <<Str(<<"token: ", GH_TOKEN_PLACEHOLDER>>), Absent>>,
                  <<Absent, S_("a key that holds the placeholder")>>},
        fs \in UserFilesystems \cup {Absent}}
    \cup {ClientConfig(S_("kept"), Absent, CustomServer, gh, fs) :
            gh \in {Absent, GithubUser},
            fs \in {Absent, FilesystemServer("@mcp/old", <<"/", "data">>)}}
    \cup {NoFile, BlankFile}

\* A client-config .bak left by an earlier run.
LeftoverBak ==
    UserFile(DictOf({<<K("mcpServers"),
                       DictOf({<<K("filesystem"),
                                 FilesystemServer("@mcp/old", <<"/", "data">>)>>})>>}))

\* The --src directory as given: absolute, relative to the working directory, and
\* absolute with a backslash in a name (before "d", and before "n").
Sources ==
    {<<"/", "repo">>, <<"repo">>, <<"/", "my", BS, "dir">>, <<"/", "my", BS, "n", "repo">>}

\* One matcher entry of a hooks list, running the command cmd (given as JSON text).
Entry(cmd) ==
    List(<<DictOf({<<K("matcher"), S_("*")>>,
                   <<K("hooks"), List(<<DictOf({<<K("type"), S_("command")>>,
                                                <<K("command"), Str(cmd)>>})>>)>>})>>)

\* The text of a hooks document with the entries PreToolUse and SessionStart under
\* hooks and the top-level key description.
HooksDocument(pre_tool_use, session_start, description) ==
    UserFile(DictOf({<<K("hooks"), DictOf({<<K("PreToolUse"), pre_tool_use>>,
                                           <<K("SessionStart"), session_start>>})>>,
                     <<K("description"), description>>}))

\* node "${CLAUDE_PLUGIN_ROOT}/scripts/test.js", as JSON text.
TestCommand == <<"node ", BS, QT, PLUGIN_ROOT_PLACEHOLDER, "/scripts/test.js", BS, QT>>

\* hooks/hooks.json as the source may hold it.
HooksSources ==
    {HooksDocument(Entry(TestCommand), Absent, Absent),
     HooksDocument(Entry(TestCommand), Entry(<<PLUGIN_ROOT_PLACEHOLDER, "/start.sh">>),
                   Str(<<"hooks of ", PLUGIN_ROOT_PLACEHOLDER>>)),
     HooksDocument(Entry(<<"echo done">>), Absent, Absent),
     BlankFile, MalformedFile, NoFile}

\* A settings document with the top-level keys customKey and hooks.
SettingsDocument(custom, hooks) ==
    UserFile(DictOf({<<K("customKey"), custom>>, <<K("hooks"), hooks>>}))

\* settings.json as the user may hold it.
SettingsFiles ==
    {NoFile, BlankFile, MalformedFile,
     SettingsDocument(S_("kept"), Absent),
     SettingsDocument(S_("kept"), DictOf({<<K("Stop"), Entry(<<"echo stop">>)>>})),
     SettingsDocument(Absent,
                      DictOf({<<K("PreToolUse"), Entry(<<"echo old">>)>>,
                              <<K("Stop"), Entry(<<PLUGIN_ROOT_PLACEHOLDER, "/stop.sh">>)>>}))}

\* A settings.json.bak left by an earlier run.
LeftoverSettingsBak == SettingsDocument(S_("older"), Absent)

\* What may be at DEST/<name>: nothing, a symlink to somewhere else, the symlink an
\* earlier run made, a directory of the user's.
Entries(src_path, name) ==
    {NoEntry, Symlink(<<"/", "old", "/", name>>), Symlink(Join(src_path, <<name>>)),
     RealDir(<<"the user's", name>>)}

\* What may be at DEST/<name>.bak: nothing, an earlier backup, a symlink.
Baks(name) ==
    {NoEntry, RealDir(<<"an earlier backup of", name>>),
     Symlink(<<"/", "old", "/", name, ".bak">>)}

\* The tree with the given entries for agents and for rules, and no other entry.
TreeOf(agents, agents_bak, rules, rules_bak) ==
    [dst |-> [n \in Names |-> IF n = "agents" THEN agents
                              ELSE IF n = "rules" THEN rules ELSE NoEntry],
     bak |-> [n \in Names |-> IF n = "agents" THEN agents_bak
                              ELSE IF n = "rules" THEN rules_bak ELSE NoEntry]]

\* The destination trees a run may find.
Trees(src_path) ==
    {TreeOf(a, ab, r[1], r[2]) :
        a \in Entries(src_path, "agents"), ab \in Baks("agents"),
        r \in {<<NoEntry, NoEntry>>,
               <<RealDir(<<"the user's", "rules">>),
                 RealDir(<<"an earlier backup of", "rules">>)>>}}

\* The names of LINK_DIRS that are directories of the source.
SourceDirs == {Names, Names \ {"rules"}, {"agents"}}

\* The two runs that may go at once.
Procs == {1, 2}

\* A run that has not been started, and will not be.
NoProc == [pc |-> "none", i |-> 0, at |-> "none"]

\* No run goes alongside another.
IdleRace ==
    /\ procs = [p \in Procs |-> NoProc]
    /\ overlapped = FALSE

\* The state of a process that has not run yet.
InitRun ==
    /\ IdleRace
    /\ pc = "idle"
    /\ args = NoArgs
    /\ out = {}
    /\ exit = "none"
    /\ pre = Snapshot(tree)
    /\ prev = [args |-> NoArgs, exit |-> "none"]

\* A source and a destination with nothing in them: what a specification leaves alone.
IdleLink ==
    /\ src = <<"/", "repo">>
    /\ src_dirs = Names
    /\ hooks_src = NoFile
    /\ mcp_src = NoFile
    /\ tree = EmptyTree
    /\ settings = NoFile
    /\ settings_bak = NoFile
    /\ claude_json = NoFile
    /\ claude_json_bak = NoFile
    /\ runs_left = 0
    /\ InitRun

IdleMerge ==
    /\ in_base = EmptyDict
    /\ in_overlay = EmptyDict
    /\ heap = <<>>
    /\ base = None
    /\ overlay = None
    /\ merged = None

\* One run over every client-config document and every source MCP document.
InitMcp ==
    /\ IdleMerge
    /\ src = <<"/", "repo">>
    /\ src_dirs = Names
    /\ hooks_src = NoFile
    /\ mcp_src \in McpSources
    /\ tree = EmptyTree
    /\ settings = NoFile
    /\ settings_bak = NoFile
    /\ claude_json \in ClientConfigs
    /\ claude_json_bak \in {NoFile} \cup (IF is_file(claude_json) THEN {} ELSE {LeftoverBak})
    /\ runs_left = 1
    /\ InitRun

\* link is invoked (lines 316-331).  --fs-path and --no-prompt are read by step 3
\* alone, and only past line 142: they are drawn where the source has an MCP document.
StartRun ==
    /\ pc = "idle"
    /\ runs_left > 0
    /\ \E fs_path \in (IF is_file(mcp_src) THEN FsPathArgs ELSE {None}),
          no_prompt \in (IF is_file(mcp_src) THEN BOOLEAN ELSE {FALSE}) :
          args' = [NoArgs EXCEPT !.fs_path = fs_path, !.no_prompt = no_prompt]
    /\ pc' = "link"
    /\ out' = {}
    /\ exit' = "running"
    /\ runs_left' = runs_left - 1
    /\ pre' = Snapshot(pre.tree)
    /\ prev' = [args |-> args, exit |-> exit]
    /\ UNCHANGED <<cvars, mvars, fixed, tree, settings, settings_bak, claude_json, claude_json_bak>>

\* Step 1 (line 334).
LinkDirectories ==
    /\ pc = "link"
    /\ LET r == _link_directories(tree, src, src_dirs)
       IN /\ tree' = [dst |-> r.dst, bak |-> r.bak]
          /\ pc' = IF r.ok THEN "hooks" ELSE "idle"
          /\ exit' = IF r.ok THEN exit ELSE "error"
    /\ UNCHANGED <<cvars, mvars, fixed, settings, settings_bak, claude_json, claude_json_bak,
                   args, out, runs_left, pre, prev>>

\* Step 2 (line 337); a parse error ends the run.
MergeHooks ==
    /\ pc = "hooks"
    /\ LET r == _merge_hooks(src, hooks_src, settings, settings_bak)
       IN /\ settings' = r.settings
          /\ settings_bak' = r.settings_bak
          /\ out' = out \cup r.out
          /\ pc' = IF r.ok THEN "mcp" ELSE "idle"
          /\ exit' = IF r.ok THEN exit ELSE "error"
    /\ UNCHANGED <<cvars, mvars, fixed, tree, claude_json, claude_json_bak, args, runs_left,
                   pre, prev>>

\* Whether step 3 runs the helper and whether it prompts: neither depends on what
\* the helper prints or the operator types.
McpInputs ==
    _merge_mcp_servers(mcp_src, claude_json, claude_json_bak, args.fs_path,
                       args.no_prompt, NotAsked, NotPrompted)

\* Step 3 (line 340).  The helper's outcome and the operator's answer are inputs of
\* the step, read only when the code runs the helper or prompts.
MergeMcpServers ==
    /\ pc = "mcp"
    /\ \E gh \in GhOutcomes \cup {NotAsked}, answer \in Answers \cup {NotPrompted} :
          LET r == _merge_mcp_servers(mcp_src, claude_json, claude_json_bak,
                                      args.fs_path, args.no_prompt, gh, answer)
          IN /\ McpInputs.asked = (gh # NotAsked)
             /\ McpInputs.prompted = (answer # NotPrompted)
             /\ claude_json' = r.claude_json
             /\ claude_json_bak' = r.claude_json_bak
             /\ args' = [args EXCEPT !.gh = gh, !.answer = answer]
             /\ out' = out \cup r.out
             /\ pc' = IF r.ok THEN "summary" ELSE "idle"
             /\ exit' = IF r.ok THEN exit ELSE "error"
    /\ UNCHANGED <<cvars, mvars, fixed, tree, settings, settings_bak, runs_left, pre, prev>>

\* Step 4 (lines 343-346): the symlinks are listed and the run ends.
Summary ==
    /\ pc = "summary"
    /\ pc' = "idle"
    /\ exit' = "ok"
    /\ UNCHANGED <<cvars, mvars, fixed, tree, settings, settings_bak, claude_json,
                   claude_json_bak, args, out, runs_left, pre, prev>>

Next == StartRun \/ LinkDirectories \/ MergeHooks \/ MergeMcpServers \/ Summary

SpecMcp == InitMcp /\ [][Next]_vars

\* One run over every hooks document, settings document and source path.
InitHooks ==
    /\ IdleMerge
    /\ src \in Sources
    /\ src_dirs = Names
    /\ hooks_src \in HooksSources
    /\ mcp_src = NoFile
    /\ tree = EmptyTree
    /\ settings \in SettingsFiles
    /\ settings_bak \in {NoFile, LeftoverSettingsBak}
    /\ claude_json = NoFile
    /\ claude_json_bak = NoFile
    /\ runs_left = 1
    /\ InitRun

SpecHooks == InitHooks /\ [][Next]_vars

\* One run over every destination tree and source path.
InitDirs ==
    /\ IdleMerge
    /\ src \in Sources
    /\ src_dirs \in SourceDirs
    /\ hooks_src = NoFile
    /\ mcp_src = NoFile
    /\ tree \in Trees(src)
    /\ settings = NoFile
    /\ settings_bak = NoFile
    /\ claude_json = NoFile
    /\ claude_json_bak = NoFile
    /\ runs_left = 1
    /\ InitRun

SpecDirs == InitDirs /\ [][Next]_vars

\* The runs of link in a row.
MaxRuns == 2

\* The source MCP document with the filesystem server alone, and with both servers.
FilesystemOnly == McpDocument(Absent, FilesystemTemplate, Absent)

BothServers == McpDocument(GithubTemplate, FilesystemTemplate, Absent)

\* The source MCP document, the client-config document and its .bak before the runs.
McpCases ==
    {<<FilesystemOnly, ClientConfig(S_("kept"), Absent, Absent, Absent, fs), NoFile>> :
        fs \in {Absent, FilesystemServer("@mcp/old", <<"/", "data">>),
                FilesystemServer("@mcp/old", <<"/", "gone">>)}}
    \cup {<<FilesystemOnly, NoFile, LeftoverBak>>,
          <<BothServers, ClientConfig(Str(<<"token: ", GH_TOKEN_PLACEHOLDER>>), Absent,
                                      Absent, Absent, Absent), NoFile>>,
          <<BothServers, ClientConfig(Absent, S_("a key that holds the placeholder"),
                                      Absent, Absent, Absent), NoFile>>,
          <<BothServers, ClientConfig(S_("kept"), Absent, CustomServer, GithubUser, Absent),
            NoFile>>}

\* MaxRuns runs in a row: over the trees, or over the hooks and settings documents, or
\* over the MCP and client-config documents (the three steps share no file).
InitLink ==
    /\ IdleMerge
    /\ src_dirs \in SourceDirs
    /\ \/ /\ src \in {<<"/", "repo">>, <<"repo">>}
          /\ tree \in Trees(src)
          /\ hooks_src = NoFile /\ settings = NoFile /\ settings_bak = NoFile
          /\ mcp_src = NoFile /\ claude_json = NoFile /\ claude_json_bak = NoFile
       \/ /\ src \in Sources
          /\ src_dirs = Names
          /\ tree = EmptyTree
          /\ hooks_src \in HooksSources
          /\ settings \in SettingsFiles
          /\ settings_bak \in {NoFile, LeftoverSettingsBak}
          /\ mcp_src = NoFile /\ claude_json = NoFile /\ claude_json_bak = NoFile
       \/ /\ src = <<"/", "repo">>
          /\ src_dirs = Names
          /\ tree = EmptyTree
          /\ hooks_src = NoFile /\ settings = NoFile /\ settings_bak = NoFile
          /\ \E c \in McpCases :
                mcp_src = c[1] /\ claude_json = c[2] /\ claude_json_bak = c[3]
    /\ runs_left = MaxRuns
    /\ InitRun

SpecLink == InitLink /\ [][Next]_vars

InitMerge ==
    /\ in_base \in MergeDocs
    /\ in_overlay \in MergeDocs
    /\ LET lb == Load(<<>>, in_base)
           lo == Load(lb.h, in_overlay)
       IN /\ heap = lo.h
          /\ base = lb.r
          /\ overlay = lo.r
    /\ merged = None
    /\ IdleLink

\* merged = _deep_merge(base, overlay)
CallDeepMerge ==
    /\ merged = None
    /\ LET res == deep_merge_heap(heap, base.v, overlay.v)
       IN /\ heap' = res.h
          /\ merged' = res.r
    /\ UNCHANGED <<in_base, in_overlay, base, overlay, lvars, cvars>>

NextMerge == CallDeepMerge

SpecMerge == InitMerge /\ [][NextMerge]_vars

(***************************************************************************)
(* What the claims speak of.                                               *)
(***************************************************************************)
\* The last run has ended.
Done == pc = "idle" /\ exit \in {"ok", "error"}

\* The document a file holds, as _read_json gives it.
DocOf(f) == _read_json(f).data

\* mcpServers.filesystem.args of a document, and its last element (None for no element).
FsArgs(doc) ==
    Get(Get(Get(doc, K("mcpServers"), EmptyDict), K("filesystem"), EmptyDict),
        K("args"), List(<<>>)).v

LastFsArg(f) == LET a == FsArgs(DocOf(f)) IN IF a = <<>> THEN None ELSE a[Len(a)]

\* The names under mcpServers, and the top-level keys, of the document of a file.
ServerNames(f) == DOMAIN Get(DocOf(f), K("mcpServers"), EmptyDict).v

TopKeys(f) == DOMAIN DocOf(f).v

\* The MCP merge of the last run wrote the client-config document.
McpMerged == Done /\ "merged_mcp" \in out

\* The path the client-config document held before the run is a string that is
\* neither empty nor the placeholder.
PriorPath == IF is_file(pre.claude_json) THEN LastFsArg(pre.claude_json) ELSE None

PriorConfigured == Truthy(PriorPath) /\ PriorPath.v # <<FS_PATH_PLACEHOLDER>>

PriorValid == PriorConfigured /\ is_dir(PriorPath.v)

PriorStale == PriorConfigured /\ ~is_dir(PriorPath.v)

SourceEndsInPlaceholder ==
    is_file(mcp_src) /\ LastFsArg(mcp_src) = Str(<<FS_PATH_PLACEHOLDER>>)

(***************************************************************************)
(* C1.  A client-config document whose filesystem args end in an existing  *)
(* directory, a run with no --fs-path and with --no-prompt, a source MCP   *)
(* document whose filesystem args end in the placeholder: the last         *)
(* filesystem arg of the final document is that directory, not the         *)
(* placeholder.                                                            *)
(***************************************************************************)
C1_Case ==
    /\ Done
    /\ PriorValid
    /\ args.fs_path = None
    /\ args.no_prompt
    /\ SourceEndsInPlaceholder

\* C1: in that case the last filesystem arg after the run is the prior directory.
C1_PathPreserved == C1_Case => LastFsArg(claude_json) = PriorPath

C1_Witness ==
    /\ C1_Case
    /\ exit = "ok"
    /\ "fs_restored" \in out
    /\ LastFsArg(claude_json) = Str(<<"/", "data">>)
    /\ FsArgs(DocOf(claude_json))[2] = S_("@mcp/server-filesystem")
    /\ FsArgs(DocOf(pre.claude_json))[2] = S_("@mcp/old")

(***************************************************************************)
(* C2.  A run with an explicit --fs-path.  If the path resolves to an      *)
(* existing directory, the last filesystem arg of the final document is    *)
(* the resolved path; if it does not, the run warns and succeeds and a     *)
(* path that was set to an existing directory before the run is still the  *)
(* last filesystem arg after it.                                           *)
(***************************************************************************)
C2_Resolved == resolve(expanduser(args.fs_path.v))

\* C2 as stated: a valid --fs-path is set; an invalid one warns, the run succeeds and a
\* prior path that is a directory is still the last filesystem arg.
C2_ExplicitPath ==
    (McpMerged /\ Truthy(args.fs_path)) =>
        IF is_dir(C2_Resolved)
        THEN LastFsArg(claude_json) = Str(C2_Resolved)
        ELSE /\ exit = "ok"
             /\ "fs_flag_not_a_directory" \in out
             /\ PriorValid => LastFsArg(claude_json) = PriorPath

\* The half of the claim the code keeps: a valid explicit path is set.
C2_ValidFlagSet ==
    (McpMerged /\ Truthy(args.fs_path) /\ is_dir(C2_Resolved)) =>
        LastFsArg(claude_json) = Str(C2_Resolved)

(***************************************************************************)
(* C3.  The reconciliation of the filesystem path.  As claimed: exactly    *)
(* one of four branches runs (1 explicit path, 2 valid backup path         *)
(* restored, 3 stale backup path warned about, 4 prompt unless             *)
(* non-interactive), so a stale-path warning is followed by no prompt.     *)
(* As amended: branches 1 and 2 end the reconciliation; the stale-path     *)
(* warning does not, and the run goes on to branch 4.                      *)
(***************************************************************************)
C3_Flag == out \cap {"fs_set_from_flag", "fs_flag_not_a_directory"} # {}

C3_Restore == "fs_restored" \in out

C3_Stale == "fs_stale_warning" \in out

C3_PromptStep == out \cap {"fs_prompt", "fs_skipped_no_prompt"} # {}

C3_Count(S) == Cardinality({b \in S : b[2]})

\* C3 as stated: exactly one of the four branches runs, and a stale-path warning is
\* followed by no prompt and no path set.
C3_FirstMatchWins ==
    McpMerged =>
        /\ C3_Count({<<1, C3_Flag>>, <<2, C3_Restore>>, <<3, C3_Stale>>,
                     <<4, C3_PromptStep>>}) = 1
        /\ C3_Stale => /\ "fs_prompt" \notin out
                       /\ "fs_set_from_prompt" \notin out

C3_AnswerIsDir ==
    args.answer \notin {<<>>, NotPrompted} /\ is_dir(resolve(expanduser(args.answer)))

\* C3 as amended: exactly one of the flag, restore and prompt-or-skip branches runs, each
\* under its condition; the stale-path warning is followed by the prompt-or-skip branch.
C3_Reconciliation ==
    McpMerged =>
        /\ C3_Count({<<1, C3_Flag>>, <<2, C3_Restore>>, <<4, C3_PromptStep>>}) = 1
        /\ C3_Flag <=> Truthy(args.fs_path)
        /\ C3_Restore <=> (~Truthy(args.fs_path) /\ PriorValid)
        /\ C3_Stale <=> (~Truthy(args.fs_path) /\ PriorStale)
        /\ C3_Stale => C3_PromptStep
        /\ "fs_skipped_no_prompt" \in out <=> (C3_PromptStep /\ args.no_prompt)
        /\ "fs_prompt" \in out <=> (C3_PromptStep /\ ~args.no_prompt)
        /\ "fs_set_from_prompt" \in out <=> ("fs_prompt" \in out /\ C3_AnswerIsDir)
        /\ "fs_set_from_prompt" \in out =>
               LastFsArg(claude_json) = Str(resolve(expanduser(args.answer)))
        /\ (C3_Stale /\ "fs_set_from_prompt" \notin out) =>
               LastFsArg(claude_json) =
                   (IF is_file(mcp_src) /\ LastFsArg(mcp_src) # None
                    THEN LastFsArg(mcp_src) ELSE PriorPath)

\* A stale path in the backup, an interactive run, and the operator's path set.
C3_Witness ==
    /\ McpMerged
    /\ C3_Stale
    /\ "fs_prompt" \in out
    /\ "fs_set_from_prompt" \in out
    /\ LastFsArg(claude_json) = Str(<<"/", "home", "/", "code">>)

(***************************************************************************)
(* C4.  The frame of the MCP merge.  As claimed: every top-level key of    *)
(* the existing document E other than mcpServers has the same value in     *)
(* the final document, no top-level key of the source document S other     *)
(* than mcpServers is added, and the final mcpServers holds every server   *)
(* name of E and of S.  As amended: the same, except that where the        *)
(* credential helper returned a token, every occurrence of the token       *)
(* placeholder in those keys and values is replaced by the token.          *)
(***************************************************************************)
C4_E == DocOf(pre.claude_json)

C4_Final == DocOf(claude_json)

C4_OtherKeys(doc) == DOMAIN doc.v \ {K("mcpServers")}

C4_Filled(x) ==
    IF "gh_autofilled" \in out
    THEN text_replace(x, GH_TOKEN_PLACEHOLDER, _gh_auth_token(args.gh).v)
    ELSE x

HooksMerged == Done /\ "merged_hooks" \in out

\* The hooks document as the source holds it, its placeholder not yet resolved.
HooksDoc == json_loads(hooks_src.data).data

\* The mapping under the key hooks of a document.
HooksOf(doc) == Get(doc, K("hooks"), EmptyDict)

\* The last run was the second of two in a row that both ended well.
SecondRun == Done /\ exit = "ok" /\ prev.exit = "ok"

(***************************************************************************)
(* C5.  No run drops a top-level key of the settings document or of the    *)
(* client-config document; in the settings document every top-level key    *)
(* the hooks document does not define keeps its value, and every entry     *)
(* under hooks the hooks document does not name is kept beside the entries *)
(* it adds.  As amended: the same, except that a top-level key of the      *)
(* client-config document whose name holds the token placeholder is        *)
(* renamed when the credential helper's token is filled in.                *)
(***************************************************************************)
C5_Settings ==
    LET E == DocOf(pre.settings)
        F == DocOf(settings)
        H == HooksDoc
    IN /\ DOMAIN E.v \subseteq DOMAIN F.v
       /\ HooksMerged =>
            /\ \A k \in DOMAIN E.v \ DOMAIN H.v : F.v[k] = E.v[k]
            /\ (IsDict(HooksOf(E)) /\ IsDict(HooksOf(H))) =>
                 /\ \A e \in DOMAIN HooksOf(E).v \ DOMAIN HooksOf(H).v :
                       /\ e \in DOMAIN HooksOf(F).v
                       /\ HooksOf(F).v[e] = HooksOf(E).v[e]
                 /\ DOMAIN HooksOf(H).v \subseteq DOMAIN HooksOf(F).v

\* C5 as stated: no top-level key of either document is missing after a run, and the
\* settings keep what the hooks document does not define or name.
C5_NoKeyDropped ==
    Done => /\ C5_Settings
            /\ TopKeys(pre.claude_json) \subseteq TopKeys(claude_json)

\* C5 as amended: the same, a client-config key taken with the token placeholder in its
\* name replaced where the helper's token was filled in.
C5_NoKeyDroppedUpToTokenFill ==
    Done => /\ C5_Settings
            /\ \A k \in TopKeys(pre.claude_json) :
                  C4_Filled(Str(k)).v \in TopKeys(claude_json)

\* The test's case: customKey and hooks.Stop kept, PreToolUse added.
C5_Witness ==
    /\ HooksMerged
    /\ pre.settings =
          SettingsDocument(S_("kept"), DictOf({<<K("Stop"), Entry(<<"echo stop">>)>>}))
    /\ DocOf(settings).v[K("customKey")] = S_("kept")
    /\ DOMAIN HooksOf(DocOf(settings)).v = {K("Stop"), K("PreToolUse")}
    /\ HooksOf(DocOf(settings)).v[K("Stop")] = decode(Entry(<<"echo stop">>))

(***************************************************************************)
(* C6.  For a hooks document that holds ${CLAUDE_PLUGIN_ROOT} and any      *)
(* settings document, after the hooks merge the settings document has the  *)
(* absolute path of the source tree wherever the hooks document had the    *)
(* token, and the token occurs nowhere in it.                              *)
(***************************************************************************)
\* The string s with the token replaced by the absolute path of the source tree.
C6_Resolved(s) == str_replace(s, PLUGIN_ROOT_PLACEHOLDER, resolve(src))

\* Wherever the value h of the hooks document holds the token, the value f of the
\* settings document holds the resolved string.
RECURSIVE C6_At(_, _)
C6_At(h, f) ==
    IF ~text_contains(h, PLUGIN_ROOT_PLACEHOLDER) THEN TRUE
    ELSE CASE h.t = "str" -> f = Str(C6_Resolved(h.v))
           [] h.t = "list" -> /\ f.t = "list"
                              /\ DOMAIN f.v = DOMAIN h.v
                              /\ \A i \in DOMAIN h.v : C6_At(h.v[i], f.v[i])
           [] h.t = "dict" -> /\ f.t = "dict"
                              /\ \A k \in DOMAIN h.v :
                                    k \in DOMAIN f.v /\ C6_At(h.v[k], f.v[k])
           [] OTHER -> TRUE

C6_Case == HooksMerged /\ text_contains(HooksDoc, PLUGIN_ROOT_PLACEHOLDER)

\* C6 as stated: the settings hold the absolute source path wherever the hooks document
\* held the token, and hold the token nowhere.
C6_PlaceholderResolved ==
    C6_Case => /\ C6_At(HooksDoc, DocOf(settings))
               /\ ~text_contains(DocOf(settings), PLUGIN_ROOT_PLACEHOLDER)

\* What the code keeps: with --src an absolute path of ordinary characters, the path is
\* at every position of the token; the token is gone where the settings had none.
C6_PlainAbsoluteSource ==
    (C6_Case /\ src = <<"/", "repo">>) =>
        /\ C6_At(HooksDoc, DocOf(settings))
        /\ ~text_contains(DocOf(pre.settings), PLUGIN_ROOT_PLACEHOLDER)
              => ~text_contains(DocOf(settings), PLUGIN_ROOT_PLACEHOLDER)

(***************************************************************************)
(* C7.  For every name of LINK_DIRS that is a directory of the source and  *)
(* every prior entry at the destination (absent, symlink, real directory;  *)
(* <name>.bak absent or a directory): after link the entry is a symlink to *)
(* the source subdirectory; a real directory is now <name>.bak, with       *)
(* nothing of an earlier <name>.bak; a symlink is removed and <name>.bak   *)
(* is as it was.                                                           *)
(***************************************************************************)
C7_PriorStates ==
    \A n \in src_dirs : pre.tree.bak[n].kind \in {"absent", "dir"}

C7_Entry(n) ==
    /\ tree.dst[n].kind = "symlink"
    /\ link_resolves_to(tree.dst[n]) = resolve(Join(src, <<n>>))
    /\ pre.tree.dst[n].kind = "dir" => tree.bak[n] = pre.tree.dst[n]
    /\ pre.tree.dst[n].kind # "dir" => tree.bak[n] = pre.tree.bak[n]

\* C7 as stated: the run succeeds and every name of the source is a symlink to the
\* source subdirectory, a real directory moved to <name>.bak, <name>.bak else untouched.
C7_Linked ==
    (Done /\ C7_PriorStates) => /\ exit = "ok"
                                /\ \A n \in src_dirs : C7_Entry(n)

\* What the code keeps: the claim for --src given as an absolute path.
C7_LinkedFromAbsoluteSource ==
    (Done /\ C7_PriorStates /\ IsAbs(src)) => /\ exit = "ok"
                                              /\ \A n \in src_dirs : C7_Entry(n)

(***************************************************************************)
(* C8.  Two runs in a row.  As claimed: with the same source, destination, *)
(* client-config path, --no-prompt and credential-helper outcome, after    *)
(* the second run every entry of the destination, every <name>.bak (the    *)
(* real directory from before the first run, no symlink) and both          *)
(* documents are what they were after the first run.  As amended: the      *)
(* same, for two runs that are also given the same --fs-path and, where    *)
(* both prompt, the same answer.                                           *)
(***************************************************************************)
C8_SameHelper == NotAsked \in {args.gh, prev.args.gh} \/ args.gh = prev.args.gh

C8_SameAnswer ==
    NotPrompted \in {args.answer, prev.args.answer} \/ args.answer = prev.args.answer

\* The state after the second run is the state after the first.
C8_Same ==
    /\ tree.dst = pre.tree.dst
    /\ tree.bak = pre.tree.bak
    /\ \A n \in src_dirs :
          /\ pre.before.dst[n].kind = "dir" => tree.bak[n] = pre.before.dst[n]
          /\ tree.bak[n].kind = "symlink" => pre.before.bak[n].kind = "symlink"
    /\ settings = pre.settings
    /\ claude_json = pre.claude_json

RECURSIVE C9_KeyWise(_, _)
C9_KeyWise(b, o) ==
    Dict([k \in DOMAIN b.v \cup DOMAIN o.v |->
            IF k \notin DOMAIN o.v THEN b.v[k]
            ELSE IF k \notin DOMAIN b.v THEN o.v[k]
            ELSE IF IsDict(b.v[k]) /\ IsDict(o.v[k]) THEN C9_KeyWise(b.v[k], o.v[k])
            ELSE o.v[k]])

\* C9: the result is the key-wise result, on the heap and on values; the two identities
\* hold; both arguments are after the call what they were before.
C9_MergeIsKeyWise ==
    merged # None =>
        /\ Val(heap, merged) = C9_KeyWise(in_base, in_overlay)
        /\ _deep_merge(in_base, in_overlay) = C9_KeyWise(in_base, in_overlay)
        /\ in_overlay = EmptyDict => Val(heap, merged) = in_base
        /\ in_base = EmptyDict => Val(heap, merged) = in_overlay
        /\ Val(heap, base) = in_base
        /\ Val(heap, overlay) = in_overlay

\* A list replaced by a list, a mapping by a scalar, and a nested mapping merged.
C9_Witness ==
    /\ merged # None
    /\ in_base = MkAB(MkAB(List(<<Str(<<"x">>)>>), Str(<<"y">>)), List(<<Str(<<"x">>)>>))
    /\ in_overlay = MkAB(MkAB(List(<<Str(<<"y">>), Str(<<"z">>)>>), Absent), Str(<<"y">>))
    /\ Val(heap, merged) =
          MkAB(MkAB(List(<<Str(<<"y">>), Str(<<"z">>)>>), Str(<<"y">>)), Str(<<"y">>))
    /\ Val(heap, base) = in_base

(***************************************************************************)
(* C10.  A document that is a file before a run that merges into it: after *)
(* the run its .bak holds what the document held before the run's first    *)
(* rewrite, whatever the token fill and the filesystem path rewrote later. *)
(* A document that was no file: no .bak is made, and a .bak left by an     *)
(* earlier run is not read for the filesystem path.                        *)
(***************************************************************************)
\* C10: the .bak of a merged document is the document as the run found it; with no
\* document the .bak is untouched and not read.
C10_BackupIsPriorContent ==
    Done =>
        /\ (HooksMerged /\ is_file(pre.settings)) => settings_bak = pre.settings
        /\ (McpMerged /\ is_file(pre.claude_json)) => claude_json_bak = pre.claude_json
        /\ ~is_file(pre.settings) => settings_bak = pre.settings_bak
        /\ ~is_file(pre.claude_json) =>
              /\ claude_json_bak = pre.claude_json_bak
              /\ out \cap {"fs_restored", "fs_stale_warning", "backed_up_claude_json"} = {}

\* A second run whose merge, token fill and filesystem path each rewrote the document:
\* the .bak of the first run is replaced by the document the second run found.
C10_Witness ==
    /\ McpMerged
    /\ prev.exit = "ok"
    /\ is_file(pre.claude_json)
    /\ {"gh_autofilled", "fs_set_from_flag"} \subseteq out
    /\ claude_json_bak = pre.claude_json
    /\ claude_json_bak # pre.claude_json_bak
    /\ claude_json # claude_json_bak

(***************************************************************************)
(* C11.  The token fill, after the MCP merge has written the client-config *)
(* document.  Where the written document holds YOUR_GITHUB_PAT_HERE and    *)
(* the credential helper returns a token, the final document holds the     *)
(* token at every position of the placeholder and holds the placeholder    *)
(* nowhere; where the helper is missing or prints nothing, the run         *)
(* succeeds and the placeholder stays; where the written document does not *)
(* hold the placeholder, the helper is not run.                            *)
(***************************************************************************)
\* The document the merge wrote (line 157), before the token fill.
C11_Written ==
    json_loads(_write_json(merge_servers_only(DocOf(pre.claude_json),
                                              DocOf(mcp_src))).data).data

\* The string s as the token fill leaves it when the helper returns token.
C11_Fill(s, token) == str_replace(s, GH_TOKEN_PLACEHOLDER, token)

\* Wherever the value w of the written document holds the placeholder, in a key or in
\* a string, the value f of the final document holds token in its place.
RECURSIVE C11_At(_, _, _)
C11_At(w, f, token) ==
    IF ~text_contains(w, GH_TOKEN_PLACEHOLDER) THEN TRUE
    ELSE CASE w.t = "str" -> f = Str(C11_Fill(w.v, token))
           [] w.t = "list" -> /\ f.t = "list"
                              /\ DOMAIN f.v = DOMAIN w.v
                              /\ \A i \in DOMAIN w.v : C11_At(w.v[i], f.v[i], token)
           [] w.t = "dict" -> /\ f.t = "dict"
                              /\ \A k \in DOMAIN w.v :
                                    /\ C11_Fill(k, token) \in DOMAIN f.v
                                    /\ C11_At(w.v[k], f.v[C11_Fill(k, token)], token)
           [] OTHER -> TRUE

\* What the helper run by this run printed, stripped; empty where it is missing or
\* printed nothing.
C11_Printed == IF args.gh.installed THEN str_strip(args.gh.stdout) ELSE <<>>

\* C11: the three cases of the token fill.
C11_TokenFill ==
    McpMerged =>
        IF text_contains(C11_Written, GH_TOKEN_PLACEHOLDER)
        THEN /\ args.gh # NotAsked
             /\ exit = "ok"
             /\ IF C11_Printed # <<>>
                THEN /\ C11_At(C11_Written, DocOf(claude_json), C11_Printed)
                     /\ ~text_contains(DocOf(claude_json), GH_TOKEN_PLACEHOLDER)
                     /\ "gh_autofilled" \in out
                ELSE /\ C11_At(C11_Written, DocOf(claude_json), <<GH_TOKEN_PLACEHOLDER>>)
                     /\ text_contains(DocOf(claude_json), GH_TOKEN_PLACEHOLDER)
                     /\ "gh_tip" \in out
        ELSE /\ args.gh = NotAsked
             /\ out \cap {"gh_autofilled", "gh_tip"} = {}

\* The helper is missing, the run ends well and the placeholder of the source's github
\* server is in the final document.
C11_HelperMissing ==
    /\ McpMerged
    /\ exit = "ok"
    /\ args.gh = [installed |-> FALSE, stdout |-> <<>>]
    /\ K("github") \in ServerNames(claude_json)
    /\ text_contains(DocOf(claude_json).v[K("mcpServers")].v[K("github")], GH_TOKEN_PLACEHOLDER)

\* The test's case: the helper prints ghp_test123 and a line feed; the token is under
\* mcpServers.github.env and in a top-level string that held the placeholder.
C11_Witness ==
    /\ McpMerged
    /\ args.gh = [installed |-> TRUE, stdout |-> <<"ghp_test123", LF>>]
    /\ K("topLevel") \in DOMAIN DocOf(pre.claude_json).v
    /\ DocOf(pre.claude_json).v[K("topLevel")] = Str(<<"token: ", GH_TOKEN_PLACEHOLDER>>)
    /\ DocOf(claude_json).v[K("topLevel")] = Str(<<"token: ", "ghp_test123">>)
    /\ K("github") \in ServerNames(claude_json)
    /\ DocOf(claude_json).v[K("mcpServers")].v[K("github")].v[K("env")]
          .v[K("GITHUB_PERSONAL_ACCESS_TOKEN")] = S_("ghp_test123")

(***************************************************************************)
(* C12.  One run over source documents that may be malformed: the hooks    *)
(* document, the MCP document, or both, with settings and client-config    *)
(* documents of the user's.                                                *)
(***************************************************************************)
ParseCases ==
    {SettingsDocument(S_("kept"), DictOf({<<K("Stop"), Entry(<<"echo stop">>)>>})),
     NoFile}

InitParse ==
    /\ IdleMerge
    /\ src = <<"/", "repo">>
    /\ src_dirs = Names
    /\ hooks_src \in HooksSources
    /\ mcp_src \in McpSources \cup {MalformedFile}
    /\ tree = EmptyTree
    /\ settings \in ParseCases
    /\ settings_bak \in {NoFile, LeftoverSettingsBak}
    /\ claude_json \in {NoFile,
                        ClientConfig(S_("kept"), Absent, CustomServer, GithubUser,
                                     FilesystemServer("@mcp/old", <<"/", "data">>))}
    /\ claude_json_bak \in {NoFile, LeftoverBak}
    /\ runs_left = 1
    /\ InitRun

SpecParse == InitParse /\ [][Next]_vars

\* Step 3 of the last run did nothing past the read of line 145.
C12_McpStepStopped ==
    /\ claude_json = pre.claude_json
    /\ claude_json_bak = pre.claude_json_bak
    /\ args.gh = NotAsked
    /\ args.answer = NotPrompted
    /\ out \cap {"backed_up_claude_json", "merged_mcp", "skip_mcp", "gh_autofilled", "gh_tip",
                 "fs_set_from_flag", "fs_flag_not_a_directory", "fs_restored",
                 "fs_stale_warning", "fs_skipped_no_prompt", "fs_prompt",
                 "fs_set_from_prompt", "fs_prompt_not_a_directory",
                 "fs_prompt_skipped"} = {}

C12_HooksWitness ==
    /\ Done
    /\ hooks_src.kind = "malformed"
    /\ mcp_src.kind = "json"
    /\ settings.kind = "json"
    /\ claude_json.kind = "json"

C13_IsPlaceholder(x) ==
    /\ x.t = "str"
    /\ \/ str_contains(x.v, GH_TOKEN_PLACEHOLDER)
       \/ str_contains(x.v, FS_PATH_PLACEHOLDER)

\* At no position that the user's value u and the source's value s share is a string
\* of the user's that holds no placeholder replaced, in the final value f, by a
\* placeholder of the source.
RECURSIVE C13_Kept(_, _, _)
C13_Kept(u, s, f) ==
    CASE u.t = "dict" /\ s.t = "dict" /\ f.t = "dict" ->
            \A k \in DOMAIN u.v \cap DOMAIN s.v \cap DOMAIN f.v :
                C13_Kept(u.v[k], s.v[k], f.v[k])
      [] u.t = "list" /\ s.t = "list" /\ f.t = "list" ->
            \A i \in DOMAIN u.v \cap DOMAIN s.v \cap DOMAIN f.v :
                C13_Kept(u.v[i], s.v[i], f.v[i])
      [] u.t = "str" /\ ~C13_IsPlaceholder(u) ->
            ~(C13_IsPlaceholder(s) /\ f = s)
      [] OTHER -> TRUE

C13_Servers(doc) == Get(doc, K("mcpServers"), EmptyDict)

\* C13: after a run that merged the MCP document, for every server that the user's
\* document and the source document both define, no value the user had set is replaced
\* in the final document by a YOUR_*_HERE placeholder of the source, whatever the
\* credential helper did.
C13_CustomizationsKept ==
    McpMerged =>
        \A name \in ServerNames(pre.claude_json) \cap ServerNames(mcp_src) :
            C13_Kept(C13_Servers(DocOf(pre.claude_json)).v[name],
                     C13_Servers(DocOf(mcp_src)).v[name],
                     C13_Servers(DocOf(claude_json)).v[name])

\* The user's token under mcpServers.github.env is ghp_user before the run; the helper
\* is not installed; the final document holds the source's placeholder in its place.
C13_TokenLost ==
    /\ McpMerged
    /\ exit = "ok"
    /\ args.gh = [installed |-> FALSE, stdout |-> <<>>]
    /\ K("github") \in ServerNames(pre.claude_json) \cap ServerNames(claude_json)
    /\ C13_Servers(DocOf(pre.claude_json)).v[K("github")] = GithubUser
    /\ C13_Servers(DocOf(claude_json)).v[K("github")].v[K("env")]
          .v[K("GITHUB_PERSONAL_ACCESS_TOKEN")] = S_(GH_TOKEN_PLACEHOLDER)

(***************************************************************************)
(* C14.  Two link runs at once on one source and one destination.  Nothing *)
(* in _link_directories takes a lock: each test and each change of the     *)
(* destination (lines 92, 94, 95, 98, 99, 100, 103) is a step of its own,  *)
(* and the steps of the two runs interleave freely.  The steps fail as the *)
(* operating system makes them fail; an exception ends the run.            *)
(***************************************************************************)
\* The directories of the source, where a symlink of a run points.
SourceDirPaths == {Join(src, <<n>>) : n \in src_dirs}

\* Path.is_dir() and Path.exists() of an entry: both follow a symlink.
entry_is_dir(e) ==
    \/ e.kind = "dir"
    \/ e.kind = "symlink" /\ link_resolves_to(e) \in SourceDirPaths

entry_exists(e) == entry_is_dir(e)

\* dest_path.unlink(): fails where nothing is there, and on a directory.
os_unlink(t, name) ==
    IF t.dst[name].kind = "symlink" THEN [t EXCEPT !.dst[name] = NoEntry]
    ELSE [t EXCEPT !.ok = FALSE]

\* An rmtree that leaves the directory where it is.
os_rmtree_kept(t, name) ==
    IF t.bak[name].kind = "dir" THEN t ELSE [t EXCEPT !.ok = FALSE]

\* shutil.rmtree(bak): fails where nothing is there, and on a symlink.
os_rmtree(t, name) ==
    IF t.bak[name].kind = "dir" THEN [t EXCEPT !.bak[name] = NoEntry]
    ELSE [t EXCEPT !.ok = FALSE]

\* dest_path.rename(bak): fails where nothing is at dest_path, where a directory (never
\* an empty one here) is at bak, and where a directory would replace a symlink; a
\* symlink replaces a symlink.
os_rename(t, name) ==
    LET d == t.dst[name]
        b == t.bak[name]
    IN IF d.kind = "absent" \/ b.kind = "dir" \/ (d.kind = "dir" /\ b.kind = "symlink")
       THEN [t EXCEPT !.ok = FALSE]
       ELSE [t EXCEPT !.bak[name] = d, !.dst[name] = NoEntry]

\* The run p is under way.
Running(p) == procs[p].pc \notin {"ready", "done", "failed", "none"}

Ended(p) == procs[p].pc \in {"done", "failed"}

\* The name the run p is at.
NameOf(p) == LINK_DIRS[procs[p].i]

\* The run p goes on at the step to with the tree t, or ends where t.ok is FALSE.
Step(p, from, to, i, t) ==
    /\ procs[p].pc = from
    /\ procs' = [procs EXCEPT ![p] = IF t.ok THEN [pc |-> to, i |-> i, at |-> "none"]
                                     ELSE [pc |-> "failed", i |-> i, at |-> from]]
    /\ tree' = [dst |-> t.dst, bak |-> t.bak]
    /\ overlapped' = (overlapped \/ \E q \in Procs \ {p} : Running(q))
    /\ UNCHANGED <<mvars, fixed, settings, settings_bak, claude_json, claude_json_bak,
                   pc, args, out, exit, runs_left, pre, prev>>

Now == [dst |-> tree.dst, bak |-> tree.bak, ok |-> TRUE]

\* link calls _link_directories (line 334).
RaceStart(p) ==
    /\ procs[p].pc = "ready"
    /\ Step(p, "ready", "loop", 1, Now)

\* Lines 85-90: the next name, if there is one; a name the source lacks is skipped.
RaceLoop(p) ==
    /\ procs[p].pc = "loop"
    /\ IF procs[p].i > Len(LINK_DIRS) THEN Step(p, "loop", "done", procs[p].i, Now)
       ELSE IF NameOf(p) \notin src_dirs
       THEN Step(p, "loop", "loop", procs[p].i + 1, Now)
       ELSE Step(p, "loop", "is_symlink", procs[p].i, Now)

\* Line 92.
RaceIsSymlink(p) ==
    /\ procs[p].pc = "is_symlink"
    /\ Step(p, "is_symlink",
            IF tree.dst[NameOf(p)].kind = "symlink" THEN "unlink" ELSE "is_dir",
            procs[p].i, Now)

\* Line 94.
RaceUnlink(p) ==
    /\ procs[p].pc = "unlink"
    /\ Step(p, "unlink", "symlink_to", procs[p].i, os_unlink(Now, NameOf(p)))

\* Line 95.
RaceIsDir(p) ==
    /\ procs[p].pc = "is_dir"
    /\ Step(p, "is_dir",
            IF entry_is_dir(tree.dst[NameOf(p)]) THEN "bak_exists" ELSE "symlink_to",
            procs[p].i, Now)

\* Line 98.
RaceBakExists(p) ==
    /\ procs[p].pc = "bak_exists"
    /\ Step(p, "bak_exists",
            IF entry_exists(tree.bak[NameOf(p)]) THEN "rmtree" ELSE "rename",
            procs[p].i, Now)

\* Line 99.
RaceRmtree(p) ==
    /\ procs[p].pc = "rmtree"
    /\ Step(p, "rmtree", "rename", procs[p].i, os_rmtree(Now, NameOf(p)))

\* Line 100.
RaceRename(p) ==
    /\ procs[p].pc = "rename"
    /\ Step(p, "rename", "symlink_to", procs[p].i, os_rename(Now, NameOf(p)))

\* Line 103, and on to the next name.
RaceSymlinkTo(p) ==
    /\ procs[p].pc = "symlink_to"
    /\ Step(p, "symlink_to", "loop", procs[p].i + 1,
            symlink_to(Now, NameOf(p), Join(src, <<NameOf(p)>>)))

\* The destination trees the two runs may find: at agents nothing, a symlink of an
\* earlier run, a symlink to elsewhere or a directory of the user's, with or without an
\* earlier backup; at rules nothing or a directory of the user's.
RaceTrees ==
    {TreeOf(a, ab, r, NoEntry) :
        a \in Entries(<<"/", "repo">>, "agents"),
        ab \in {NoEntry, RealDir(<<"an earlier backup of", "agents">>)},
        r \in {NoEntry, RealDir(<<"the user's", "rules">>)}}

InitRace ==
    /\ IdleMerge
    /\ src = <<"/", "repo">>
    /\ src_dirs \in {{"agents"}, {"agents", "rules"}}
    /\ hooks_src = NoFile
    /\ mcp_src = NoFile
    /\ tree \in RaceTrees
    /\ settings = NoFile
    /\ settings_bak = NoFile
    /\ claude_json = NoFile
    /\ claude_json_bak = NoFile
    /\ runs_left = 0
    /\ pc = "idle"
    /\ args = NoArgs
    /\ out = {}
    /\ exit = "none"
    /\ pre = Snapshot(tree)
    /\ prev = [args |-> NoArgs, exit |-> "none"]
    /\ procs = [p \in Procs |-> [pc |-> "ready", i |-> 0, at |-> "none"]]
    /\ overlapped = FALSE

NextRace ==
    \E p \in Procs :
        \/ RaceStart(p)
        \/ RaceLoop(p)
        \/ RaceIsSymlink(p)
        \/ RaceUnlink(p)
        \/ RaceIsDir(p)
        \/ RaceBakExists(p)
        \/ RaceRmtree(p)
        \/ RaceRename(p)
        \/ RaceSymlinkTo(p)

SpecRace == InitRace /\ [][NextRace]_vars

\* What one run after the other leaves: the tree, and whether each run ended well.  The
\* two runs have the same options, so the two orders leave the same.
C14_Sequential ==
    LET first == _link_directories(pre.tree, src, src_dirs)
        second == _link_directories(first, src, src_dirs)
    IN [dst |-> second.dst, bak |-> second.bak, oks |-> {first.ok, second.ok}]

\* What the two runs at once have left.
C14_Outcome ==
    [dst |-> tree.dst, bak |-> tree.bak, oks |-> {procs[p].pc = "done" : p \in Procs}]

C14_BothEnded == \A p \in Procs : Ended(p)

\* The content of the user's directory at DEST/agents is nowhere: not at agents, not
\* at agents.bak.
C14_ContentLost ==
    /\ pre.tree.dst["agents"].kind = "dir"
    /\ tree.dst["agents"] # pre.tree.dst["agents"]
    /\ tree.bak["agents"] # pre.tree.dst["agents"]

\* C14: two link runs at once take no lock.  Where their steps have not interleaved
\* (one run ended before the other began) the outcome is that of one run after the
\* other; every other outcome comes of an interleaving (and C14_Witness is such an
\* outcome: a run failed at rename and the user's directory is lost).
C14_OnlyInterleavingsDiverge ==
    (C14_BothEnded /\ C14_Outcome # C14_Sequential) => overlapped

\* An interleaving with an outcome of no sequential order: the user's directory was at
\* agents; one run ended well, the other failed at rename; the content of the
\* directory is neither at agents nor at agents.bak.
C14_Witness ==
    /\ C14_BothEnded
    /\ overlapped
    /\ C14_Outcome # C14_Sequential
    /\ C14_ContentLost
    /\ \E p \in Procs : procs[p].pc = "failed" /\ procs[p].at = "rename"
    /\ \E p \in Procs : procs[p].pc = "done"

\* An interleaving in which a run fails at the creation of the symlink.
C14_FailsAtSymlink ==
    /\ C14_BothEnded
    /\ C14_Outcome # C14_Sequential
    /\ \E p \in Procs : procs[p].pc = "failed" /\ procs[p].at = "symlink_to"

====
